---- MODULE Spec2Model ----
(***************************************************************************)
(* Model of cargo-dist's Github CI backend (backend/ci/github.rs):         *)
(* the runner catalogue, the target classifier, the installer selector,    *)
(* the two target distributors, GithubCiInfo::new, and the                 *)
(* generate / write / check protocol around .github/workflows/release.yml. *)
(*                                                                         *)
(* A Rust String is modelled as a sequence of one-character strings, so    *)
(* that `contains` is substring search and the order of SortedSet and      *)
(* SortedMap is the byte-wise lexicographic order of str.                  *)
(***************************************************************************)
EXTENDS Naturals, Sequences, FiniteSets, TLC

VARIABLES
    dist,       \* the DistGraph the tool was invoked on (the fields github.rs reads)
    info,       \* Option<GithubCiInfo>: None until GithubCiInfo::new has run
    local_runs, \* Option of the (runner, targets) pairs new() got from the distributor
    disk,       \* the file at github_ci_path: [exists, content]
    last        \* what the last operation was and what it returned

vars == <<dist, info, local_runs, disk, last>>

-----------------------------------------------------------------------------
(* Bounds of the model *)

\* the most releases a DistGraph holds
MaxReleases == 2
\* the most targets one release declares
MaxTargets == 1

-----------------------------------------------------------------------------
(* Strings *)

\* The characters that occur in the modelled strings, in ASCII (byte) order.
Chars ==
    <<" ", "-", ".", "/", "0", "1", "2", "3", "4", "5", "6", "7", "8", "9", "=",
      "A", "_",
      "a", "b", "c", "d", "e", "f", "g", "h", "i", "j", "k", "l", "m",
      "n", "o", "p", "q", "r", "s", "t", "u", "v", "w", "x", "y", "z">>

\* The rank of a character in byte order.
Code(c) == CHOOSE i \in 1..Len(Chars) : Chars[i] = c

\* the comparison of a and b from position i on, the earlier characters equal
RECURSIVE LtFrom(_, _, _)
LtFrom(a, b, i) ==
    IF i > Len(a) THEN i <= Len(b)
    ELSE IF i > Len(b) THEN FALSE
    ELSE IF a[i] = b[i] THEN LtFrom(a, b, i + 1)
    ELSE Code(a[i]) < Code(b[i])

\* <str as Ord>::lt : byte-wise lexicographic order, a proper prefix first.
StrLt(a, b) == LtFrom(a, b, 1)

\* str::contains(pat) : pat occurs as a contiguous substring of s.
Contains(s, pat) ==
    \E i \in 0..(Len(s) - Len(pat)) : SubSeq(s, i + 1, i + Len(pat)) = pat

\* Iteration order of a SortedSet (BTreeSet) of strings: ascending by StrLt.
RECURSIVE SortedSeq(_)
SortedSeq(S) ==
    IF S = {} THEN <<>>
    ELSE LET m == CHOOSE x \in S : \A y \in S \ {x} : StrLt(x, y)
         IN  <<m>> \o SortedSeq(S \ {m})

\* Option<T>
None == [some |-> FALSE]
Some(x) == [some |-> TRUE, val |-> x]

-----------------------------------------------------------------------------
(* The runner catalogue *)

\* "ubuntu-20.04"
GITHUB_LINUX_RUNNER == <<"u","b","u","n","t","u","-","2","0",".","0","4">>
\* "macos-11"
GITHUB_MACOS_RUNNER == <<"m","a","c","o","s","-","1","1">>
\* "windows-2019"
GITHUB_WINDOWS_RUNNER == <<"w","i","n","d","o","w","s","-","2","0","1","9">>

\* the three runners of the catalogue
GithubRunners == {GITHUB_LINUX_RUNNER, GITHUB_MACOS_RUNNER, GITHUB_WINDOWS_RUNNER}

\* "linux", "apple", "windows"
KwLinux == <<"l","i","n","u","x">>
KwApple == <<"a","p","p","l","e">>
KwWindows == <<"w","i","n","d","o","w","s">>

\* Get the appropriate Github Runner for building a target
github_runner_for_target(target) ==
    IF Contains(target, KwLinux) THEN Some(GITHUB_LINUX_RUNNER)
    ELSE IF Contains(target, KwApple) THEN Some(GITHUB_MACOS_RUNNER)
    ELSE IF Contains(target, KwWindows) THEN Some(GITHUB_WINDOWS_RUNNER)
    ELSE None

\* the value of a call that hit unreachable!(): the process panics
Panic == <<"p","a","n","i","c">>

\* Select the cargo-dist installer approach for a given Github Runner
install_dist_for_github_runner(runner, install_sh, install_ps1) ==
    IF runner = GITHUB_LINUX_RUNNER \/ runner = GITHUB_MACOS_RUNNER THEN install_sh
    ELSE IF runner = GITHUB_WINDOWS_RUNNER THEN install_ps1
    ELSE Panic

-----------------------------------------------------------------------------
(* The target distributors *)

\* EntryPush as groups.insert(runner, vec![target]): the entry is replaced
EntryPush_Insert(groups, runner, target) ==
    [r \in (DOMAIN groups) \cup {runner} |->
        IF r = runner THEN <<target>> ELSE groups[r]]

\* groups.entry(runner).or_default().push(target) on a SortedMap
EntryPush(groups, runner, target) ==
    [r \in (DOMAIN groups) \cup {runner} |->
        IF r = runner
        THEN (IF r \in DOMAIN groups THEN groups[r] ELSE <<>>) \o <<target>>
        ELSE groups[r]]

\* RunnerOrDefault with "ubuntu-latest", a runner outside the catalogue, as default
RunnerOrDefault_Latest(target) ==
    LET runner == github_runner_for_target(target)
    IN  IF runner.some THEN runner.val
        ELSE <<"u","b","u","n","t","u","-","l","a","t","e","s","t">>

\* the loop body of both distributors: classify, fall back to the Linux runner
RunnerOrDefault(target) ==
    LET runner == github_runner_for_target(target)
    IN  IF runner.some THEN runner.val ELSE GITHUB_LINUX_RUNNER

\* the `for target in targets` loop of distribute_targets_to_runners_merged
RECURSIVE MergedLoop(_, _)
MergedLoop(groups, targets) ==
    IF targets = <<>> THEN groups
    ELSE MergedLoop(EntryPush(groups, RunnerOrDefault(Head(targets)), Head(targets)),
                    Tail(targets))

\* the runners in the order in which the loop first met them
RECURSIVE FirstSeen(_, _)
FirstSeen(seen, targets) ==
    IF targets = <<>> THEN seen
    ELSE LET r == RunnerOrDefault(Head(targets))
         IN  FirstSeen(IF \E i \in DOMAIN seen : seen[i] = r THEN seen ELSE Append(seen, r),
                       Tail(targets))

\* distribute_targets_to_runners_merged over a map that keeps insertion order
distribute_targets_to_runners_merged_InsertionOrder(targets) ==
    LET groups == MergedLoop(<<>>, SortedSeq(targets))
        keys == FirstSeen(<<>>, SortedSeq(targets))
    IN  [i \in 1..Len(keys) |-> <<keys[i], groups[keys[i]]>>]

\* distribute_targets_to_runners_merged: one (runner, targets) pair per runner,
\* in the key order of the SortedMap
distribute_targets_to_runners_merged(targets) ==
    LET groups == MergedLoop(<<>>, SortedSeq(targets))
        keys == SortedSeq(DOMAIN groups)
    IN  [i \in 1..Len(keys) |-> <<keys[i], groups[keys[i]]>>]

\* the `for target in targets` loop of distribute_targets_to_runners_split
RECURSIVE SplitLoop(_, _)
SplitLoop(groups, targets) ==
    IF targets = <<>> THEN groups
    ELSE SplitLoop(Append(groups, <<RunnerOrDefault(Head(targets)), <<Head(targets)>>>>),
                   Tail(targets))

\* distribute_targets_to_runners_split grouping by runner like the merged one
distribute_targets_to_runners_split_Grouping(targets) ==
    distribute_targets_to_runners_merged(targets)

\* distribute_targets_to_runners_split: one singleton pair per target, in the
\* iteration order of the SortedSet of targets
distribute_targets_to_runners_split(targets) ==
    SplitLoop(<<>>, SortedSeq(targets))

-----------------------------------------------------------------------------
(* The DistGraph: the fields of it that github.rs reads *)

\* the target triples releases are built for
TargetTriples ==
    { <<"x","8","6","_","6","4","-","u","n","k","n","o","w","n","-","l","i","n","u","x","-","g","n","u">>,
      <<"a","a","r","c","h","6","4","-","a","p","p","l","e","-","d","a","r","w","i","n">>,
      <<"x","8","6","_","6","4","-","a","p","p","l","e","-","d","a","r","w","i","n">>,
      <<"x","8","6","_","6","4","-","p","c","-","w","i","n","d","o","w","s","-","m","s","v","c">>,
      <<"w","a","s","m","3","2","-","u","n","k","n","o","w","n","-","u","n","k","n","o","w","n">> }

\* a release: its target list and its global artifacts (by index)
Releases ==
    [targets : {T \in SUBSET TargetTriples : Cardinality(T) <= MaxTargets},
     global_artifacts : {{}, {0}}]

\* the values of CiStyle
CiStyles == {"Github"}

\* the template store of the graph: the release.yml template as shipped, a
\* template that renders to nothing, and one the engine fails on
TemplateKinds == {"release", "blank", "broken"}

\* super::SELF_DIST_VERSION, "0.2.0", and a pinned version, "0.3.0"
SELF_DIST_VERSION == <<"0",".","2",".","0">>
PinnedVersion == <<"0",".","3",".","0">>

\* dist.workspace_dir joined with GITHUB_CI_DIR and GITHUB_CI_FILE
GITHUB_CI_DIR == <<".","g","i","t","h","u","b","/","w","o","r","k","f","l","o","w","s","/">>
GITHUB_CI_FILE == <<"r","e","l","e","a","s","e",".","y","m","l">>

\* the sequences of at most n releases
ReleaseLists(n) == UNION {[1..k -> Releases] : k \in 0..n}

\* a DistGraph with the given releases and configuration; the fields that
\* GithubCiInfo::new only copies hold their defaults
DistGraph(releases, merge_tasks, allow_dirty, version, templates) ==
    [ desired_rust_toolchain |-> None,
      desired_cargo_dist_version |-> version,
      fail_fast |-> FALSE,
      create_release |-> TRUE,
      pr_run_mode |-> "plan",
      tap |-> None,
      publish_jobs |-> <<>>,
      releases |-> releases,
      merge_tasks |-> merge_tasks,
      allow_dirty |-> allow_dirty,
      templates |-> templates,
      workspace_dir |-> <<>> ]

-----------------------------------------------------------------------------
(* GithubCiInfo::new *)

\* super::install_dist_sh_for_version / install_dist_ps1_for_version
install_dist_sh_for_version(version) == <<"s","h"," ">> \o version
install_dist_ps1_for_version(version) == <<"p","s","1"," ">> \o version

\* the union of the releases' target lists (local_targets.extend)
LocalTargets(d) == UNION {d.releases[i].targets : i \in DOMAIN d.releases}

\* needs_global_build assigned, not or-ed, in the loop: the last release decides
NeedsGlobalBuild_LastRelease(d) ==
    /\ d.releases # <<>>
    /\ d.releases[Len(d.releases)].global_artifacts # {}

\* needs_global_build: some release has global artifacts
NeedsGlobalBuild(d) == \E i \in DOMAIN d.releases : d.releases[i].global_artifacts # {}

\* write!(dist_args, " --target={target}") for each target of a run
RECURSIVE TargetArgs(_)
TargetArgs(targets) ==
    IF targets = <<>> THEN <<>>
    ELSE <<" ","-","-","t","a","r","g","e","t","=">> \o Head(targets) \o TargetArgs(Tail(targets))

\* the local runs: the distributor chosen by dist.merge_tasks
LocalRuns(d) ==
    IF d.merge_tasks
    THEN distribute_targets_to_runners_merged(LocalTargets(d))
    ELSE distribute_targets_to_runners_split(LocalTargets(d))

\* the GithubMatrixEntry pushed for one local run
LocalTask(run, install_dist_sh, install_dist_ps1) ==
    [ runner |-> Some(run[1]),
      dist_args |-> Some(<<"-","-","a","r","t","i","f","a","c","t","s","=","l","o","c","a","l">>
                         \o TargetArgs(run[2])),
      install_dist |-> Some(install_dist_for_github_runner(run[1], install_dist_sh,
                                                           install_dist_ps1)) ]

\* the global task, when a global build is needed
GlobalTask(d, install_dist_sh) ==
    IF NeedsGlobalBuild(d)
    THEN Some([ runner |-> Some(GITHUB_LINUX_RUNNER),
                dist_args |-> Some(<<"-","-","a","r","t","i","f","a","c","t","s","=","g","l","o","b","a","l">>),
                install_dist |-> Some(install_dist_sh) ])
    ELSE None

\* GithubCiInfo::new(dist), from the local runs the distributor returned
BuildInfo(d, runs) ==
    LET dist_version == IF d.desired_cargo_dist_version.some
                        THEN d.desired_cargo_dist_version.val
                        ELSE SELF_DIST_VERSION
        install_dist_sh == install_dist_sh_for_version(dist_version)
        install_dist_ps1 == install_dist_ps1_for_version(dist_version)
        tasks == [i \in 1..Len(runs) |->
                     LocalTask(runs[i], install_dist_sh, install_dist_ps1)]
    IN  [ rust_version |-> d.desired_rust_toolchain,
          install_dist_sh |-> install_dist_sh,
          install_dist_ps1 |-> install_dist_ps1,
          fail_fast |-> d.fail_fast,
          tap |-> d.tap,
          publish_jobs |-> d.publish_jobs,
          artifacts_matrix |-> [include |-> tasks],
          pr_run_mode |-> d.pr_run_mode,
          global_task |-> GlobalTask(d, install_dist_sh),
          create_release |-> d.create_release,
          allow_dirty |-> "Github" \in d.allow_dirty ]

\* GithubCiInfo::new(dist)
GithubCiInfoNew(d) == BuildInfo(d, LocalRuns(d))

\* the info holds a task whose installer selection hit unreachable!(): new()
\* panicked before returning it
Panicked(self) ==
    \E i \in DOMAIN self.artifacts_matrix.include :
        self.artifacts_matrix.include[i].install_dist.val = Panic

-----------------------------------------------------------------------------
(* The external collaborators: the template engine and the file store *)

\* Result<T, E>
Ok(x) == [ok |-> TRUE, val |-> x]
Err(e) == [ok |-> FALSE, err |-> e]

\* an error value: its kind and, for CheckFileMismatch, the file it names
Error(kind, file) == [kind |-> kind, file |-> file]

\* the three lines a GithubMatrixEntry renders to
EntryLines(entry) ==
    << <<"r","u","n","n","e","r"," ">> \o entry.runner.val,
       <<"d","i","s","t","_","a","r","g","s"," ">> \o entry.dist_args.val,
       <<"i","n","s","t","a","l","l","_","d","i","s","t"," ">> \o entry.install_dist.val >>

RECURSIVE MatrixLines(_)
MatrixLines(include) ==
    IF include = <<>> THEN <<>>
    ELSE EntryLines(Head(include)) \o MatrixLines(Tail(include))

\* templates.render_file_to_clean_string(TEMPLATE_CI_GITHUB, self): a
\* deterministic function of the template and the serialized info. The text is
\* a sequence of lines.
RenderFileToCleanString(templates, self) ==
    IF templates = "broken" THEN Err(Error("RenderError", <<>>))
    ELSE IF templates = "blank" THEN Ok(<<>>)
    ELSE Ok(<< <<"n","a","m","e">> >>
            \o (IF self.global_task.some THEN EntryLines(self.global_task.val) ELSE <<>>)
            \o MatrixLines(self.artifacts_matrix.include))

\* the file at github_ci_path when it does not exist
NoFile == [exists |-> FALSE, content |-> <<>>]
\* the file holding the given text
File(text) == [exists |-> TRUE, content |-> text]

\* LocalAsset::load_string(path): the content, or an error; `fault` is an I/O
\* failure of the read other than not-found (permissions, invalid UTF-8, ...)
LoadString(file, fault) ==
    IF ~file.exists THEN Err(Error("NotFound", <<>>))
    ELSE IF fault THEN Err(Error("IoError", <<>>))
    ELSE Ok(file.content)

\* LocalAsset::write_new_all(contents, path): the file afterwards and the
\* result. A failed write leaves the old file, or the file already truncated.
WriteNewAll(file, contents, fault) ==
    IF ~fault THEN {[file |-> File(contents), res |-> Ok(<<>>)]}
    ELSE {[file |-> f, res |-> Err(Error("IoError", <<>>))] : f \in {file, File(<<>>)}}

-----------------------------------------------------------------------------
(* The render/sync gate *)

\* GithubCiInfo::github_ci_path
github_ci_path(self, d) == d.workspace_dir \o GITHUB_CI_DIR \o GITHUB_CI_FILE

\* GithubCiInfo::generate_github_ci
generate_github_ci(self, d) == RenderFileToCleanString(d.templates, self)

\* write_to_disk that creates the file but never overwrites an existing one
write_to_disk_KeepExisting(self, d, file, fault) ==
    LET rendered == generate_github_ci(self, d)
    IN  IF ~rendered.ok THEN {[file |-> file, res |-> rendered]}
        ELSE IF file.exists THEN {[file |-> file, res |-> Ok(<<>>)]}
        ELSE WriteNewAll(file, rendered.val, fault)

\* GithubCiInfo::write_to_disk: the possible (file, result) pairs
write_to_disk(self, d, file, fault) ==
    LET ci_file == github_ci_path(self, d)
        rendered == generate_github_ci(self, d)
    IN  IF ~rendered.ok THEN {[file |-> file, res |-> rendered]}
        ELSE WriteNewAll(file, rendered.val, fault)

\* check_github_ci that does not consult allow_dirty
check_github_ci_IgnoreDirty(self, d, loaded) ==
    LET ci_file == github_ci_path(self, d)
        rendered == generate_github_ci(self, d)
    IN  IF ~rendered.ok THEN rendered
        ELSE LET existing == IF loaded.ok THEN loaded.val ELSE <<>>
             IN  IF rendered.val # existing
                 THEN Err(Error("CheckFileMismatch", ci_file))
                 ELSE Ok(<<>>)

\* check_github_ci with load_string(..)? : every error of the read is returned
check_github_ci_PropagateRead(self, d, loaded) ==
    LET ci_file == github_ci_path(self, d)
        rendered == generate_github_ci(self, d)
    IN  IF ~rendered.ok THEN rendered
        ELSE IF ~loaded.ok THEN loaded
        ELSE IF rendered.val # loaded.val /\ ~self.allow_dirty
             THEN Err(Error("CheckFileMismatch", ci_file))
             ELSE Ok(<<>>)

\* GithubCiInfo::check_github_ci, given the result of the read of the file
check_github_ci(self, d, loaded) ==
    LET ci_file == github_ci_path(self, d)
        rendered == generate_github_ci(self, d)
    IN  IF ~rendered.ok THEN rendered
        ELSE LET existing == IF loaded.ok THEN loaded.val ELSE <<>>
             IN  IF rendered.val # existing /\ ~self.allow_dirty
                 THEN Err(Error("CheckFileMismatch", ci_file))
                 ELSE Ok(<<>>)

-----------------------------------------------------------------------------
(* The state machine *)

\* the record of the last operation: which one, its result, what the read of
\* the file returned (check only), and whether it directly followed a
\* successful write_to_disk of the same info
Last(op, res, read, after_write) ==
    [op |-> op, res |-> res, read |-> read, after_write |-> after_write]

\* the example graph: one release for the four common triples, with a global
\* artifact
ExampleReleases ==
    << [targets |-> {t \in TargetTriples : github_runner_for_target(t).some},
        global_artifacts |-> {0}] >>

\* the graphs the render/sync gate is run on: the empty graph and the example,
\* in either packing mode, with any template store
GateGraphs ==
    {DistGraph(rs, m, {}, None, t) :
        rs \in {<<>>, ExampleReleases}, m \in BOOLEAN, t \in TemplateKinds}

\* the graphs GithubCiInfo::new is run on
DistGraphs ==
    {DistGraph(rs, m, {}, None, "release") :
        rs \in ReleaseLists(MaxReleases), m \in BOOLEAN}

Start ==
    /\ info = None
    /\ local_runs = None
    /\ disk = NoFile
    /\ last = Last("init", Ok(<<>>), "none", FALSE)

Init == dist \in GateGraphs /\ Start

InitNew == dist \in DistGraphs /\ Start

\* GithubCiInfo::new(dist); a panic ends the process without an info. The
\* distributor and the builder are each evaluated once, as in the code.
New ==
    /\ \E runs \in {LocalRuns(dist)} :
        \E self \in {BuildInfo(dist, runs)} :
            /\ local_runs' = Some(runs)
            /\ info' = IF Panicked(self) THEN None ELSE Some(self)
            /\ last' = Last("new", IF Panicked(self) THEN Err(Error("Panic", <<>>)) ELSE Ok(<<>>),
                            "none", FALSE)
    /\ UNCHANGED <<dist, disk>>

\* generate_github_ci
Generate ==
    /\ info.some
    /\ last' = Last("generate", generate_github_ci(info.val, dist), "none", FALSE)
    /\ UNCHANGED <<dist, info, local_runs, disk>>

\* write_to_disk
Write ==
    /\ info.some
    /\ \E fault \in BOOLEAN :
        \E out \in write_to_disk(info.val, dist, disk, fault) :
            /\ disk' = out.file
            /\ last' = Last("write", out.res, "none", FALSE)
    /\ UNCHANGED <<dist, info, local_runs>>

\* check_github_ci that rewrites the file when it finds it out of date
Check_Regenerate ==
    /\ info.some
    /\ \E fault \in BOOLEAN :
        LET loaded == LoadString(disk, fault)
            res == check_github_ci(info.val, dist, loaded)
            read == IF ~generate_github_ci(info.val, dist).ok THEN "none"
                    ELSE IF loaded.ok THEN "Ok" ELSE loaded.err.kind
        IN  /\ last' = Last("check", res, read, last.op = "write" /\ last.res.ok)
            /\ disk' = IF res.ok \/ res.err.kind # "CheckFileMismatch" THEN disk
                       ELSE File(generate_github_ci(info.val, dist).val)
    /\ UNCHANGED <<dist, info, local_runs>>

\* check_github_ci
Check ==
    /\ info.some
    /\ \E fault \in BOOLEAN :
        LET loaded == LoadString(disk, fault)
            res == check_github_ci(info.val, dist, loaded)
            read == IF ~generate_github_ci(info.val, dist).ok THEN "none"
                    ELSE IF loaded.ok THEN "Ok" ELSE loaded.err.kind
        IN  last' = Last("check", res, read, last.op = "write" /\ last.res.ok)
    /\ UNCHANGED <<dist, info, local_runs, disk>>

\* the texts someone else puts at the path: an empty file and a foreign text
ForeignTexts == {<<>>, << <<"A">> >>}

\* the file is edited or deleted outside the tool
ExternalEdit ==
    /\ \E f \in ({NoFile} \cup {File(t) : t \in ForeignTexts}) \ {disk} : disk' = f
    /\ last' = Last("edit", Ok(<<>>), "none", FALSE)
    /\ UNCHANGED <<dist, info, local_runs>>

\* the configuration changes between two runs of the tool: the packing mode,
\* the allow-dirty list or the pinned cargo-dist version
Reconfigure ==
    /\ \E d \in { [dist EXCEPT !.merge_tasks = ~@],
                  [dist EXCEPT !.allow_dirty = CiStyles \ @],
                  [dist EXCEPT !.desired_cargo_dist_version =
                                   IF @.some THEN None ELSE Some(PinnedVersion)] } :
            dist' = d
    /\ info' = None
    /\ local_runs' = None
    /\ last' = Last("config", Ok(<<>>), "none", FALSE)
    /\ UNCHANGED disk

Next == New \/ Generate \/ Write \/ Check \/ ExternalEdit \/ Reconfigure

\* the render/sync gate, run after run, on a few graphs
Spec == Init /\ [][Next]_vars

NextNew == New

\* GithubCiInfo::new on every graph within the bounds
SpecNew == InitNew /\ [][NextNew]_vars

-----------------------------------------------------------------------------
(* Properties of the render/sync gate, checked under Spec *)

\* the text generate_github_ci returns for the current info
Rendered == generate_github_ci(info.val, dist)

\* the content at the path, a missing file counting as empty
DiskText == IF disk.exists THEN disk.content ELSE <<>>

\* ".github/workflows/release.yml" under the workspace root
WorkflowPath ==
    <<".","g","i","t","h","u","b","/","w","o","r","k","f","l","o","w","s","/",
      "r","e","l","e","a","s","e",".","y","m","l">>

\* the drift-detected error naming the workflow path
IsDrift(res) == ~res.ok /\ res.err = Error("CheckFileMismatch", WorkflowPath)

\* C1: a check that directly follows a successful write of the same info, with
\* allow-dirty false and the file read back without an I/O failure, succeeds.
C1_WriteThenCheckSucceeds ==
    (/\ last.op = "check"
     /\ last.after_write
     /\ ~info.val.allow_dirty
     /\ last.read # "IoError") => last.res.ok

\* C1 witness: such a check happened, on a non-empty rendered text.
C1_Witness ==
    /\ last.op = "check"
    /\ last.after_write
    /\ ~info.val.allow_dirty
    /\ last.read = "Ok"
    /\ last.res.ok
    /\ disk.content # <<>>

\* C2: when rendering succeeded and the file was read (or was missing), check
\* returned the drift error naming the workflow path if the rendered text
\* differs from the content on disk and allow-dirty is false, and succeeded
\* in every other case.
C2_DriftIffDiffersAndNotDirty ==
    (last.op = "check" /\ last.read \in {"Ok", "NotFound"}) =>
        IF Rendered.val # DiskText /\ ~info.val.allow_dirty
        THEN IsDrift(last.res)
        ELSE last.res.ok

\* C2 witness: a check of an existing, readable file that reported drift.
C2_Witness ==
    /\ last.op = "check"
    /\ last.read = "Ok"
    /\ IsDrift(last.res)
    /\ disk.exists

\* C3: a check whose read of the file failed with an I/O error other than
\* not-found returns that I/O error: neither success nor the drift error.
C3_ReadErrorPropagates ==
    (last.op = "check" /\ last.read = "IoError") =>
        (~last.res.ok /\ last.res.err.kind = "IoError")

\* C4: a step of check (as of new and generate) leaves the file as it was,
\* whatever it returns; a successful write leaves the file holding exactly
\* the rendered text, whatever it held before.
C4_CheckNeverMutates ==
    [][/\ last'.op \in {"check", "generate", "new"} => disk' = disk
       /\ (last'.op = "write" /\ last'.res.ok) =>
              disk' = File(generate_github_ci(info'.val, dist').val)]_vars

\* C4 witness: check reported drift on a file that holds a foreign text.
C4_Witness ==
    /\ last.op = "check"
    /\ IsDrift(last.res)
    /\ disk = File(<< <<"A">> >>)

\* C5: a check that found no file at the path returned what check returns on
\* an existing empty file: success if the rendered text is empty or
\* allow-dirty is true, the drift error otherwise.
C5_MissingAsEmpty ==
    (last.op = "check" /\ last.read = "NotFound") =>
        /\ last.res = check_github_ci(info.val, dist, LoadString(File(<<>>), FALSE))
        /\ IF Rendered.val = <<>> \/ info.val.allow_dirty
           THEN last.res.ok
           ELSE IsDrift(last.res)

\* C5 witness: a check of a missing file reported drift.
C5_Witness ==
    /\ last.op = "check"
    /\ last.read = "NotFound"
    /\ ~disk.exists
    /\ IsDrift(last.res)

-----------------------------------------------------------------------------
(* Properties of the distributors and of GithubCiInfo::new, under SpecNew *)

\* the target lists of the runs, laid end to end
RECURSIVE Flatten(_)
Flatten(runs) == IF runs = <<>> THEN <<>> ELSE Head(runs)[2] \o Flatten(Tail(runs))

\* a sequence of strings ascends strictly
Ascending(seq) == \A i \in 1..(Len(seq) - 1) : StrLt(seq[i], seq[i + 1])

\* a sequence of strings never descends
NonDescending(seq) == \A i \in 1..(Len(seq) - 1) : ~StrLt(seq[i + 1], seq[i])

\* the runners of the runs, in order
RunnersOf(runs) == [i \in 1..Len(runs) |-> runs[i][1]]

\* the runner a target is to be built on: its class, or the Linux runner
ClassOf(t) ==
    IF github_runner_for_target(t).some THEN github_runner_for_target(t).val
    ELSE GITHUB_LINUX_RUNNER

\* C6: in either mode the target lists of the runs hold every input target
\* exactly once: no target repeated within or across lists, none left out,
\* none added.
C6_PartitionTotal ==
    local_runs.some =>
        LET all == Flatten(local_runs.val)
        IN  /\ \A i, j \in 1..Len(all) : i # j => all[i] # all[j]
            /\ {all[i] : i \in 1..Len(all)} = LocalTargets(dist)

\* C6 witness: a merged run over two targets, one of them of no known OS.
C6_Witness ==
    /\ local_runs.some
    /\ dist.merge_tasks
    /\ Cardinality(LocalTargets(dist)) >= 2
    /\ \E t \in LocalTargets(dist) : ~github_runner_for_target(t).some

\* C7: merged mode returns one run per distinct runner of the targets, holding
\* exactly the targets of that runner; split mode returns one singleton run
\* per target, on that target's runner.
C7_OnePerRunnerOrPerTarget ==
    local_runs.some =>
        LET runs == local_runs.val
            T == LocalTargets(dist)
        IN  IF dist.merge_tasks
            THEN /\ \A i, j \in 1..Len(runs) : i # j => runs[i][1] # runs[j][1]
                 /\ {runs[i][1] : i \in 1..Len(runs)} = {ClassOf(t) : t \in T}
                 /\ \A i \in 1..Len(runs) :
                        /\ {runs[i][2][k] : k \in 1..Len(runs[i][2])}
                               = {t \in T : ClassOf(t) = runs[i][1]}
                        /\ Len(runs[i][2]) = Cardinality({t \in T : ClassOf(t) = runs[i][1]})
            ELSE /\ Len(runs) = Cardinality(T)
                 /\ {runs[i][2] : i \in 1..Len(runs)} = {<<t>> : t \in T}
                 /\ \A i \in 1..Len(runs) : runs[i][1] = ClassOf(runs[i][2][1])

\* C7 witness: a split run of two targets that share a runner.
C7_Witness ==
    /\ local_runs.some
    /\ ~dist.merge_tasks
    /\ Len(local_runs.val) = 2
    /\ local_runs.val[1][1] = local_runs.val[2][1]

\* C8 as stated: in both modes the runs are in the order of their runners, and
\* in merged mode the targets of a run are in order.
C8_RunsInRunnerOrder ==
    local_runs.some =>
        /\ NonDescending(RunnersOf(local_runs.val))
        /\ dist.merge_tasks =>
               \A i \in 1..Len(local_runs.val) : Ascending(local_runs.val[i][2])

\* C8 amended: in merged mode the runs are in the order of their runners and
\* the targets of each run are in order; in split mode the runs are in the
\* order of their targets.
C8_MergedByRunnerSplitByTarget ==
    local_runs.some =>
        IF dist.merge_tasks
        THEN /\ Ascending(RunnersOf(local_runs.val))
             /\ \A i \in 1..Len(local_runs.val) : Ascending(local_runs.val[i][2])
        ELSE Ascending(Flatten(local_runs.val))

\* C8 witness: a split run of two targets, in the order of the targets, whose
\* runners descend.
C8_Witness ==
    /\ local_runs.some
    /\ ~dist.merge_tasks
    /\ Len(local_runs.val) = 2
    /\ StrLt(local_runs.val[1][2][1], local_runs.val[2][2][1])
    /\ StrLt(local_runs.val[2][1], local_runs.val[1][1])

\* C9: the info has a global task exactly when some release has a global
\* artifact, and then it is the Linux runner, "--artifacts=global" and the
\* shell installer.
C9_GlobalTask ==
    info.some =>
        /\ info.val.global_task.some
               <=> (\E i \in 1..Len(dist.releases) : dist.releases[i].global_artifacts # {})
        /\ info.val.global_task.some =>
               info.val.global_task.val =
                   [ runner |-> Some(GITHUB_LINUX_RUNNER),
                     dist_args |-> Some(<<"-","-","a","r","t","i","f","a","c","t","s","=",
                                          "g","l","o","b","a","l">>),
                     install_dist |-> Some(info.val.install_dist_sh) ]
        /\ info.val.install_dist_sh = <<"s","h"," ">> \o SELF_DIST_VERSION

\* C9 witness: a global task for a graph whose last release has no global
\* artifact and whose releases have no target.
C9_Witness ==
    /\ info.some
    /\ info.val.global_task.some
    /\ Len(dist.releases) = 2
    /\ dist.releases[2].global_artifacts = {}
    /\ LocalTargets(dist) = {}

\* C10: new never panics in the installer selector: every local task is on a
\* runner of the catalogue, with the shell installer on the Linux and macOS
\* runners and the PowerShell installer on the Windows runner.
C10_NoUnknownRunner ==
    last.op = "new" =>
        /\ last.res.ok
        /\ info.some
        /\ \A i \in 1..Len(info.val.artifacts_matrix.include) :
               LET task == info.val.artifacts_matrix.include[i]
               IN  /\ task.runner.val \in GithubRunners
                   /\ task.install_dist.val =
                          IF task.runner.val = GITHUB_WINDOWS_RUNNER
                          THEN info.val.install_dist_ps1
                          ELSE info.val.install_dist_sh
                   /\ info.val.install_dist_sh # info.val.install_dist_ps1

\* C10 witness: new built a task for a target of no known OS and one for the
\* Windows runner.
C10_Witness ==
    /\ last.op = "new"
    /\ info.some
    /\ \E t \in LocalTargets(dist) : ~github_runner_for_target(t).some
    /\ \E i \in 1..Len(info.val.artifacts_matrix.include) :
           info.val.artifacts_matrix.include[i].runner.val = GITHUB_WINDOWS_RUNNER

====
